---- MODULE Spec2Model ----
(***************************************************************************)
(* Model of multiget (src/src/index.ts): a HEAD probe, the chunk planner   *)
(* getChunks, the concurrent range fetches joined by Promise.all, the      *)
(* status validation and the reassembly of the payloads.                   *)
(*                                                                         *)
(* Strings are sequences of one-character strings, so that formatting a    *)
(* range header and reading it back on the server are real conversions.    *)
(* Node runs one callback at a time: an action is one I/O event together   *)
(* with the microtasks it triggers.                                        *)
(***************************************************************************)
EXTENDS Integers, Sequences, FiniteSets, TLC

\* Bounds of the exploration.
MaxLength == 6
MaxChunks == 3
MaxLimit == 5

\* The status the validation expects (index.ts:99).
PartialContent == 206

\* Values of the accept-ranges response header; Absent is JS undefined.
Absent == <<"undefined">>
AcceptRangesValues == {Absent, <<"n","o","n","e">>, <<"b","y","t","e","s">>, <<"N","o","n","e">>, <<>>}

NoBuffer == <<-1>>
NoFailure == [kind |-> "none", origin |-> -1, message |-> <<>>]

VARIABLES totalLength, numberOfChunks, limit, resource, pc, headers, chunks,
          fetch, arrival, requests, result, failure

vars == <<totalLength, numberOfChunks, limit, resource, pc, headers, chunks,
          fetch, arrival, requests, result, failure>>

----------------------------------------------------------------------------
\* Number <-> string conversions of JavaScript (template literals, coercion).

DigitChars == <<"0","1","2","3","4","5","6","7","8","9">>

RECURSIVE NumberToString(_)
NumberToString(n) ==
    IF n < 0 THEN <<"-">> \o NumberToString(0 - n)
    ELSE IF n < 10 THEN <<DigitChars[n + 1]>>
    ELSE NumberToString(n \div 10) \o <<DigitChars[(n % 10) + 1]>>

DigitValue(c) == (CHOOSE d \in 1..10 : DigitChars[d] = c) - 1

RECURSIVE ToNumber(_)
ToNumber(s) ==
    IF Len(s) = 1 THEN DigitValue(s[1])
    ELSE 10 * ToNumber(SubSeq(s, 1, Len(s) - 1)) + DigitValue(s[Len(s)])

----------------------------------------------------------------------------
\* acceptsRanges (index.ts:19-23)
acceptsRangesNoneOnly(acceptRangesHeader) ==
    ~(acceptRangesHeader = <<"n","o","n","e">>)

acceptsRangesAnyCase(acceptRangesHeader) ==
    ~(acceptRangesHeader = <<"n","o","n","e">> \/ acceptRangesHeader = <<"N","o","n","e">>
        \/ acceptRangesHeader = Absent)

acceptsRanges(acceptRangesHeader) ==
    ~(acceptRangesHeader = <<"n","o","n","e">> \/ acceptRangesHeader = Absent)

\* formatChunk forgetting the span: the end index is the start index.
formatChunkSingleByte(chunk) ==
    NumberToString(chunk.offset) \o <<"-">> \o NumberToString(chunk.offset)

\* formatChunk (index.ts:25-27): `${chunk.offset}-${chunk.offset + chunk.size}`
formatChunkExclusiveEnd(chunk) ==
    NumberToString(chunk.offset) \o <<"-">> \o NumberToString(chunk.offset + chunk.size + 1)

formatChunk(chunk) ==
    NumberToString(chunk.offset) \o <<"-">> \o NumberToString(chunk.offset + chunk.size)

\* The forEach of getChunks (index.ts:61-67): todo more chunks, running offset.
RECURSIVE RestChunks(_, _, _)
RestChunks(todo, offset, chunkSize) ==
    IF todo = 0 THEN <<>>
    ELSE <<[size |-> chunkSize - 1, offset |-> offset + 1]>>
            \o RestChunks(todo - 1, offset + chunkSize, chunkSize)

\* getChunks with the boundary byte fetched twice (0-100, 100-200).
getChunksOverlapping(contentLength, chunkCount, contentLengthLimit) ==
    LET capped == IF contentLength > contentLengthLimit THEN contentLengthLimit ELSE contentLength
        len == capped - 1
        bytesToRedistribute == len % chunkCount
        chunkSize == (len - bytesToRedistribute) \div chunkCount
        firstChunkSize == chunkSize + bytesToRedistribute
    IN  <<[size |-> firstChunkSize, offset |-> 0]>>
            \o [k \in 1..(chunkCount - 1) |->
                  [size |-> chunkSize, offset |-> firstChunkSize + (k - 1) * chunkSize]]

\* getChunks losing the remainder instead of giving it to the first chunk.
getChunksNoRemainder(contentLength, chunkCount, contentLengthLimit) ==
    LET capped == IF contentLength > contentLengthLimit THEN contentLengthLimit ELSE contentLength
        len == capped - 1
        bytesToRedistribute == len % chunkCount
        chunkSize == (len - bytesToRedistribute) \div chunkCount
    IN  <<[size |-> chunkSize, offset |-> 0]>>
            \o RestChunks(chunkCount - 1, chunkSize, chunkSize)

\* getChunks (index.ts:29-70)
getChunks(contentLength, chunkCount, contentLengthLimit) ==
    LET capped == IF contentLength > contentLengthLimit THEN contentLengthLimit ELSE contentLength
        len == capped - 1
        bytesToRedistribute == len % chunkCount
        chunkSize == (len - bytesToRedistribute) \div chunkCount
        firstChunkSize == chunkSize + bytesToRedistribute
    IN  <<[size |-> firstChunkSize, offset |-> 0]>>
            \o RestChunks(chunkCount - 1, firstChunkSize, chunkSize)

\* `bytes=${formatChunk(chunk)}` (index.ts:85)
rangeHeader(chunk) == <<"b","y","t","e","s","=">> \o formatChunk(chunk)

----------------------------------------------------------------------------
\* The remote server: how it reads a range header and what it sends back.

DashAt(s) == CHOOSE k \in 1..Len(s) : s[k] = "-"
RangeStart(h) == ToNumber(SubSeq(h, 7, 6 + DashAt(SubSeq(h, 7, Len(h))) - 1))
RangeEnd(h) == ToNumber(SubSeq(h, 6 + DashAt(SubSeq(h, 7, Len(h))) + 1, Len(h)))

Min(a, b) == IF a < b THEN a ELSE b
Max(a, b) == IF a > b THEN a ELSE b

\* Bytes s..e (inclusive, zero-based) of res, clipped to the resource.
RangeBytes(res, s, e) ==
    [k \in 1..Max(0, Min(e, Len(res) - 1) - s + 1) |-> res[s + k]]

ResourceBytes(len) == [k \in 1..len |-> k - 1]
GarbledBytes == <<255>>

ResponseKinds == {"partial", "garbled", "full"}

ServerResponse(kind, res, h) ==
    CASE kind = "partial" -> [state |-> "resolved", status |-> 206,
                              data |-> RangeBytes(res, RangeStart(h), RangeEnd(h))]
      [] kind = "garbled" -> [state |-> "resolved", status |-> 206, data |-> GarbledBytes]
      [] kind = "full"    -> [state |-> "resolved", status |-> 200, data |-> res]

InFlight == [state |-> "inflight", status |-> 0, data |-> <<>>]
Rejected == [state |-> "rejected", status |-> 0, data |-> <<>>]

HeadRequest == [method |-> "HEAD", range |-> <<>>]
GetRequest(chunk) == [method |-> "GET", range |-> rangeHeader(chunk)]

----------------------------------------------------------------------------
\* Promise.all (index.ts:84,96) fulfils once every input promise is fulfilled.
PromiseAllNever(f) == FALSE

PromiseAllOnFirst(f) == \E j \in 1..Len(f) : f[j].state = "resolved"

PromiseAllFulfilled(f) == \A j \in 1..Len(f) : f[j].state = "resolved"

\* Promise.all (index.ts:84,96): the settled values, indexed as the input.
PromiseAllByArrival(f, order) == [i \in 1..Len(f) |-> f[order[i]]]

PromiseAll(f, order) == [i \in 1..Len(f) |-> f[i]]

\* responses.filter(response => response.response.status !== 206) (index.ts:99)
RECURSIVE FilterInvalid(_, _)
FilterInvalid(responses, cs) ==
    IF Len(responses) = 0 THEN <<>>
    ELSE (IF responses[1].status # PartialContent
             THEN <<[chunk |-> cs[1], response |-> responses[1]]>> ELSE <<>>)
         \o FilterInvalid(Tail(responses), Tail(cs))

invalidResponesNone(responses, cs) == <<>>

invalidRespones(responses, cs) == FilterInvalid(responses, cs)

\* String(object) of a plain object, and Array.prototype.toString.
ObjectToString(o) == <<"[object Object]">>

RECURSIVE ArrayToString(_)
ArrayToString(a) ==
    IF Len(a) = 0 THEN <<>>
    ELSE IF Len(a) = 1 THEN ObjectToString(a[1])
    ELSE ObjectToString(a[1]) \o <<",">> \o ArrayToString(Tail(a))

\* `received invalid responses:\n ${invalidRespones}` (index.ts:102)
InvalidMessage(invalid) == <<"received invalid responses:\n ">> \o ArrayToString(invalid)

\* Buffer.concat(responses.map(response => response.response.data)) (index.ts:107)
RECURSIVE BufferConcat(_)
BufferConcat(responses) ==
    IF Len(responses) = 0 THEN <<>>
    ELSE responses[1].data \o BufferConcat(Tail(responses))

----------------------------------------------------------------------------
Init ==
    /\ totalLength \in 1..MaxLength
    /\ numberOfChunks \in 1..MaxChunks
    /\ limit \in 1..MaxLimit
    /\ resource = ResourceBytes(totalLength)
    /\ pc = "head"
    /\ headers = [acceptRanges |-> Absent, contentLength |-> <<>>]
    /\ chunks = <<>>
    /\ fetch = <<>>
    /\ arrival = <<>>
    /\ requests = <<HeadRequest>>
    /\ result = NoBuffer
    /\ failure = NoFailure

\* axios.head resolves (index.ts:73).
HeadResponse ==
    /\ pc = "head"
    /\ \E h \in AcceptRangesValues :
          headers' = [acceptRanges |-> h, contentLength |-> NumberToString(totalLength)]
    /\ pc' = "accepts"
    /\ UNCHANGED <<totalLength, numberOfChunks, limit, resource, chunks, fetch,
                   arrival, requests, result, failure>>

\* axios.head rejects (index.ts:73): the error leaves download.
HeadFail ==
    /\ pc = "head"
    /\ pc' = "failed"
    /\ failure' = [kind |-> "transport", origin |-> 0, message |-> <<>>]
    /\ UNCHANGED <<totalLength, numberOfChunks, limit, resource, headers, chunks,
                   fetch, arrival, requests, result>>

\* The continuation after `await acceptsRanges` (index.ts:75-96): throw, or
\* plan the chunks and start every range request.
CheckRanges ==
    /\ pc = "accepts"
    /\ IF ~acceptsRanges(headers.acceptRanges)
       THEN /\ pc' = "failed"
            /\ failure' = [kind |-> "unsupported", origin |-> -1,
                           message |-> <<"does not support partial requests.">>]
            /\ UNCHANGED <<chunks, fetch, requests>>
       ELSE LET planned == getChunks(ToNumber(headers.contentLength), numberOfChunks, limit)
            IN  /\ chunks' = planned
                /\ fetch' = [i \in 1..Len(planned) |-> InFlight]
                /\ requests' = requests \o [i \in 1..Len(planned) |-> GetRequest(planned[i])]
                /\ pc' = "fetching"
                /\ UNCHANGED failure
    /\ UNCHANGED <<totalLength, numberOfChunks, limit, resource, headers, arrival, result>>

\* The continuation after `await Promise.all` (index.ts:98-107).
Settle(f, order) ==
    LET responses == PromiseAll(f, order)
        invalid == invalidRespones(responses, chunks)
    IN  IF Len(invalid) # 0
        THEN /\ pc' = "failed"
             /\ failure' = [kind |-> "invalid", origin |-> -1, message |-> InvalidMessage(invalid)]
             /\ UNCHANGED result
        ELSE /\ pc' = "returned"
             /\ result' = BufferConcat(responses)
             /\ UNCHANGED failure

\* axios.get of chunk i resolves (index.ts:88-95).
ChunkResponse(i) ==
    /\ i \in 1..Len(fetch)
    /\ fetch[i].state = "inflight"
    /\ \E kind \in ResponseKinds :
          fetch' = [fetch EXCEPT ![i] = ServerResponse(kind, resource, requests[i + 1].range)]
    /\ arrival' = Append(arrival, i)
    /\ IF pc = "fetching" /\ PromiseAllFulfilled(fetch')
       THEN Settle(fetch', arrival')
       ELSE UNCHANGED <<pc, result, failure>>
    /\ UNCHANGED <<totalLength, numberOfChunks, limit, resource, headers, chunks, requests>>

\* A rejected request that is issued once more.
ChunkFailRetry(i) ==
    /\ i \in 1..Len(fetch)
    /\ fetch[i].state = "inflight"
    /\ Len(requests) <= 1 + Len(chunks)
    /\ requests' = Append(requests, requests[i + 1])
    /\ UNCHANGED <<totalLength, numberOfChunks, limit, resource, pc, headers, chunks,
                   fetch, arrival, result, failure>>

\* A rejection whose error replaces the outcome download already has.
ChunkFailLastWins(i) ==
    /\ i \in 1..Len(fetch)
    /\ fetch[i].state = "inflight"
    /\ fetch' = [fetch EXCEPT ![i] = Rejected]
    /\ arrival' = Append(arrival, i)
    /\ pc' = "failed"
    /\ failure' = [kind |-> "transport", origin |-> i, message |-> <<>>]
    /\ UNCHANGED <<totalLength, numberOfChunks, limit, resource, headers, chunks,
                   requests, result>>

\* A rejection that aborts the sibling requests still in flight.
ChunkFailAborting(i) ==
    /\ i \in 1..Len(fetch)
    /\ fetch[i].state = "inflight"
    /\ fetch' = [j \in 1..Len(fetch) |->
                    IF fetch[j].state = "inflight" THEN Rejected ELSE fetch[j]]
    /\ arrival' = Append(arrival, i)
    /\ IF pc = "fetching"
       THEN /\ pc' = "failed"
            /\ failure' = [kind |-> "transport", origin |-> i, message |-> <<>>]
       ELSE UNCHANGED <<pc, failure>>
    /\ UNCHANGED <<totalLength, numberOfChunks, limit, resource, headers, chunks,
                   requests, result>>

\* axios.get of chunk i rejects (index.ts:88), on a network error or on a
\* status outside 2xx: Promise.all rejects at once, the sibling requests stay
\* in flight.
ChunkFail(i) ==
    /\ i \in 1..Len(fetch)
    /\ fetch[i].state = "inflight"
    /\ fetch' = [fetch EXCEPT ![i] = Rejected]
    /\ arrival' = Append(arrival, i)
    /\ IF pc = "fetching"
       THEN /\ pc' = "failed"
            /\ failure' = [kind |-> "transport", origin |-> i, message |-> <<>>]
       ELSE UNCHANGED <<pc, failure>>
    /\ UNCHANGED <<totalLength, numberOfChunks, limit, resource, headers, chunks,
                   requests, result>>

Next ==
    \/ HeadResponse
    \/ HeadFail
    \/ CheckRanges
    \/ \E i \in 1..MaxChunks : ChunkResponse(i)
    \/ \E i \in 1..MaxChunks : ChunkFail(i)

Spec == Init /\ [][Next]_vars

\* Every request that was issued is answered or fails, and a continuation
\* that is ready runs.
FairSpec ==
    /\ Spec
    /\ WF_vars(HeadResponse \/ HeadFail)
    /\ WF_vars(CheckRanges)
    /\ \A i \in 1..MaxChunks : WF_vars(ChunkResponse(i) \/ ChunkFail(i))

----------------------------------------------------------------------------
\* Vocabulary of the properties.

Planned == Len(chunks) > 0
EffectiveLength == Min(totalLength, limit)
Interval(c) == c.offset .. (c.offset + c.size)
ChunkIndexes == 1..Len(chunks)
RequestOf(i) == requests[i + 1]
GetRequests == {k \in 1..Len(requests) : requests[k].method = "GET"}

RECURSIVE SumOver(_, _)
SumOver(f, n) == IF n = 0 THEN 0 ELSE f[n] + SumOver(f, n - 1)

ByteCounts == [i \in ChunkIndexes |-> chunks[i].size + 1]
PayloadLengths == [i \in 1..Len(fetch) |-> Len(fetch[i].data)]
RequestedCounts ==
    [i \in ChunkIndexes |-> RangeEnd(RequestOf(i).range) - RangeStart(RequestOf(i).range) + 1]

Honest(i) ==
    /\ fetch[i].state = "resolved"
    /\ fetch[i].status = 206
    /\ fetch[i].data = RangeBytes(resource, RangeStart(RequestOf(i).range),
                                  RangeEnd(RequestOf(i).range))
Offending(i) == fetch[i].state = "resolved" /\ fetch[i].status # 206
Occurs(sub, s) ==
    \E k \in 0..(Len(s) - Len(sub)) : \A p \in 1..Len(sub) : s[k + p] = sub[p]

\* C1: the planned chunks, read as closed intervals [offset, offset+size] in
\* list order, tile [0, effectiveLength-1]: together they cover exactly that
\* range, no two of them share a byte, each starts right after the previous
\* one ends, and the sum of size+1 is effectiveLength.
C1_Tiling ==
    Planned =>
        /\ UNION {Interval(chunks[i]) : i \in ChunkIndexes} = 0..(EffectiveLength - 1)
        /\ \A i, j \in ChunkIndexes :
              i # j => Interval(chunks[i]) \cap Interval(chunks[j]) = {}
        /\ \A i \in 1..(Len(chunks) - 1) :
              chunks[i + 1].offset = chunks[i].offset + chunks[i].size + 1
        /\ chunks[Len(chunks)].offset + chunks[Len(chunks)].size = EffectiveLength - 1
        /\ SumOver(ByteCounts, Len(chunks)) = EffectiveLength

C1_Witness ==
    /\ Len(chunks) = 3
    /\ EffectiveLength = 5
    /\ chunks[1].size = 2
    /\ chunks[3] = [size |-> 0, offset |-> 4]

\* C2: when every range request was answered with 206 and exactly the bytes
\* it asked for, download has returned a buffer of min(totalLength, sizeLimit)
\* bytes whose byte i is byte i of the resource, whatever the arrival order.
C2_HonestServerGivesResource ==
    (Planned /\ \A i \in ChunkIndexes : Honest(i)) =>
        /\ pc = "returned"
        /\ Len(result) = EffectiveLength
        /\ \A k \in 1..EffectiveLength : result[k] = resource[k]

C2_Witness ==
    /\ pc = "returned"
    /\ \A i \in ChunkIndexes : Honest(i)
    /\ arrival = <<2, 3, 1>>
    /\ totalLength > limit
    /\ limit = 5

\* C3: the returned buffer is the concatenation of the payloads in chunk-index
\* order, for every completion order: the payload of chunk i sits right after
\* the payloads of the chunks before it.
C3_IndexOrder ==
    pc = "returned" =>
        /\ Len(result) = SumOver(PayloadLengths, Len(fetch))
        /\ \A i \in 1..Len(fetch) : \A p \in 1..Len(fetch[i].data) :
              result[SumOver(PayloadLengths, i - 1) + p] = fetch[i].data[p]

C3_Witness ==
    /\ pc = "returned"
    /\ arrival = <<3, 2, 1>>
    /\ fetch[1].data # fetch[3].data
    /\ Len(fetch[1].data) > 1

\* C4: download is all-or-nothing: a buffer is returned only when every chunk
\* fetch resolved with 206, and then it holds every payload; once a fetch
\* resolved with another status or was rejected, no buffer is ever returned,
\* and download has failed as soon as no fetch is left in flight.
C4_AllOrNothing ==
    /\ pc = "returned" =>
          /\ Planned
          /\ \A i \in 1..Len(fetch) : fetch[i].state = "resolved" /\ fetch[i].status = 206
          /\ \A i \in 1..Len(fetch) : Occurs(fetch[i].data, result)
    /\ pc # "returned" => result = NoBuffer
    /\ (\E i \in 1..Len(fetch) : Offending(i) \/ fetch[i].state = "rejected") =>
          /\ pc \in {"fetching", "failed"}
          /\ (\A j \in 1..Len(fetch) : fetch[j].state # "inflight") => pc = "failed"

C4_Witness ==
    /\ pc = "failed"
    /\ failure.kind = "invalid"
    /\ Len(fetch) = 3
    /\ Honest(1) /\ Honest(2) /\ Offending(3)
    /\ Len(fetch[1].data) > 0

\* C5: no GET request is issued unless the probe completed and reported
\* support; when it reported no support download failed without any GET,
\* and every GET carries a range header (there is no whole-file request).
C5_NoFetchBeforeSupport ==
    /\ \A k \in GetRequests :
          /\ pc \notin {"head", "accepts"}
          /\ headers.acceptRanges \notin {Absent, <<"n","o","n","e">>}
          /\ SubSeq(requests[k].range, 1, 6) = <<"b","y","t","e","s","=">>
    /\ (pc \notin {"head", "accepts"} /\ failure.origin # 0
            /\ headers.acceptRanges \in {Absent, <<"n","o","n","e">>}) =>
          /\ pc = "failed"
          /\ Len(requests) = 1
          /\ fetch = <<>>

C5_Witness ==
    /\ pc = "failed"
    /\ failure.kind = "unsupported"
    /\ headers.acceptRanges = Absent
    /\ requests = <<HeadRequest>>

\* C6: the offsets of the planned chunks are strictly increasing along the
\* list and the first chunk has offset 0.
C6_StrictlyIncreasingOffsets ==
    Planned =>
        /\ chunks[1].offset = 0
        /\ \A i \in 1..(Len(chunks) - 1) : chunks[i].offset < chunks[i + 1].offset

\* C7: every planned chunk has a non-negative offset and a non-negative size,
\* so every formatted range start-end has start <= end.
C7_NonNegativeChunks ==
    Planned =>
        \A i \in ChunkIndexes :
            /\ chunks[i].offset >= 0
            /\ chunks[i].size >= 0
            /\ RangeStart(RequestOf(i).range) <= RangeEnd(RequestOf(i).range)

\* C8: no range request names a start or end byte index at or beyond
\* min(totalLength, sizeLimit), and when totalLength > sizeLimit the bytes
\* covered by all requests sum to exactly sizeLimit.
C8_CeilingNeverExceeded ==
    /\ \A k \in GetRequests :
          /\ RangeStart(requests[k].range) < EffectiveLength
          /\ RangeEnd(requests[k].range) < EffectiveLength
    /\ (Planned /\ totalLength > limit) =>
          SumOver(RequestedCounts, Len(chunks)) = limit

\* C9: when a chunk fetch returned a status other than 206, the failure of
\* download names exactly the offending chunks, each with its range and its
\* status: the range of chunk i occurs in the failure iff chunk i offended.
C9_FailureNamesOffenders ==
    failure.kind = "invalid" =>
        \A i \in ChunkIndexes :
            Offending(i) <=>
                /\ Occurs(formatChunk(chunks[i]), failure.message)
                /\ Occurs(NumberToString(fetch[i].status), failure.message)

\* C10: the capability check reports unsupported exactly when the
\* accept-ranges header is absent or "none", and supported for every other
\* value: once the check ran, download failed as unsupported iff the header
\* was one of those two.
C10_CapabilityCheck ==
    (pc \notin {"head", "accepts"} /\ failure.origin # 0) =>
        /\ (Len(requests) = 1 /\ failure.kind = "unsupported")
              <=> headers.acceptRanges \in {Absent, <<"n","o","n","e">>}
        /\ (Len(requests) > 1 /\ failure.kind # "unsupported")
              <=> headers.acceptRanges \notin {Absent, <<"n","o","n","e">>}

C10_Witness ==
    /\ pc = "fetching"
    /\ headers.acceptRanges = <<"N","o","n","e">>
    /\ Len(requests) > 1

InFlightSet == {i \in 1..Len(fetch) : fetch[i].state = "inflight"}
RejectedSet == {i \in 1..Len(fetch) : fetch[i].state = "rejected"}
Final == pc \in {"returned", "failed"}
FirstRejected ==
    arrival[CHOOSE k \in 1..Len(arrival) :
                /\ fetch[arrival[k]].state = "rejected"
                /\ \A m \in 1..(k - 1) : fetch[arrival[m]].state # "rejected"]

\* C11: a transport failure of the probe or of a chunk fetch makes download
\* fail with that error and nothing is retried: one probe request, at most one
\* range request per chunk, no range request after a failed probe, and after
\* a rejected fetch the failure is the error of the first fetch that rejected.
C11_TransportErrorNoRetry ==
    /\ Cardinality({k \in 1..Len(requests) : requests[k].method = "HEAD"}) = 1
    /\ Len(requests) = 1 + Len(chunks)
    /\ \A i \in ChunkIndexes : RequestOf(i) = GetRequest(chunks[i])
    /\ failure.origin = 0 =>
          pc = "failed" /\ failure.kind = "transport" /\ requests = <<HeadRequest>>
            /\ fetch = <<>>
    /\ RejectedSet # {} =>
          /\ pc = "failed"
          /\ failure = [kind |-> "transport", origin |-> FirstRejected, message |-> <<>>]
          /\ result = NoBuffer

C11_Witness ==
    /\ pc = "failed"
    /\ arrival = <<2, 1>>
    /\ RejectedSet = {1, 2}
    /\ failure.origin = 2
    /\ Len(requests) = 3

\* C12: after a successful probe there are exactly chunkCount range requests,
\* request i carrying bytes=<offset>-<offset+size> of chunk i, and all of them
\* are issued in the step that plans the chunks, so that every fetch is in
\* flight before any response is awaited.
C12_OneRequestPerChunk ==
    /\ [](Planned =>
            /\ Len(chunks) = numberOfChunks
            /\ Len(requests) = 1 + numberOfChunks
            /\ \A i \in ChunkIndexes :
                  /\ RequestOf(i).method = "GET"
                  /\ RequestOf(i).range =
                        <<"b","y","t","e","s","=">> \o NumberToString(chunks[i].offset)
                            \o <<"-">> \o NumberToString(chunks[i].offset + chunks[i].size)
                  /\ RangeStart(RequestOf(i).range) = chunks[i].offset
                  /\ RangeEnd(RequestOf(i).range) = chunks[i].offset + chunks[i].size)
    /\ [][(~Planned /\ Len(chunks') > 0) =>
            /\ Len(requests') = 1 + numberOfChunks
            /\ Len(fetch') = numberOfChunks
            /\ \A i \in 1..numberOfChunks : fetch'[i].state = "inflight"]_vars

C12_Witness ==
    /\ pc = "fetching"
    /\ numberOfChunks = 3
    /\ InFlightSet = {1, 2, 3}
    /\ Cardinality(GetRequests) = 3

\* C13 as stated: download leaves the fetch stage, by proceeding or by
\* failing, only when no launched chunk fetch is still in flight.
C13_JoinBarrier ==
    (Planned /\ Final) => InFlightSet = {}

\* C13 as amended: download proceeds to validation and reassembly only when
\* every launched fetch has resolved, and stays in the fetch stage while
\* fetches are in flight and none has rejected; it fails while siblings are
\* in flight only through the rejection of a fetch.
C13_JoinUnlessRejected ==
    /\ (pc = "returned" \/ failure.kind = "invalid") =>
          (Planned /\ \A i \in 1..Len(fetch) : fetch[i].state = "resolved")
    /\ (Planned /\ InFlightSet # {} /\ RejectedSet = {}) => pc = "fetching"
    /\ (Planned /\ Final /\ InFlightSet # {}) =>
          (failure.kind = "transport" /\ RejectedSet # {})

C13_Witness ==
    /\ pc = "fetching"
    /\ Len(fetch) = 3
    /\ InFlightSet = {1}
    /\ arrival = <<3, 2>>

\* C14: there is no cancellation: when a chunk fetch rejects, the siblings in
\* flight stay in flight (and may complete later); once download failed with a
\* transport error, that failure stays the outcome and no buffer is returned,
\* whatever the siblings complete with.
C14_NoCancellation ==
    [][/\ \A i, j \in 1..Len(fetch) :
             (i # j /\ fetch[i].state = "inflight" /\ fetch'[i].state = "rejected"
                /\ fetch[j].state = "inflight") => fetch'[j].state = "inflight"
       /\ failure.kind = "transport" =>
             (pc' = "failed" /\ failure' = failure /\ result' = NoBuffer)]_vars

C14_Witness ==
    /\ pc = "failed"
    /\ failure = [kind |-> "transport", origin |-> 1, message |-> <<>>]
    /\ arrival = <<1, 2, 3>>
    /\ Honest(2)
    /\ fetch[3].state = "rejected"
    /\ result = NoBuffer

\* C15: with span = min(totalLength, sizeLimit) - 1, remainder = span mod
\* chunkCount and baseSpan = (span - remainder) / chunkCount, the plan has
\* chunkCount chunks, the first of size baseSpan + remainder at offset 0, every
\* later one of size baseSpan - 1 at previous.offset + previous.size + 1.
C15_PlanShape ==
    Planned =>
        LET span == EffectiveLength - 1
            remainder == span % numberOfChunks
            baseSpan == (span - remainder) \div numberOfChunks
        IN  /\ Len(chunks) = numberOfChunks
            /\ chunks[1].offset = 0
            /\ chunks[1].size = baseSpan + remainder
            /\ \A i \in 2..Len(chunks) :
                  /\ chunks[i].size = baseSpan - 1
                  /\ chunks[i].offset = chunks[i - 1].offset + chunks[i - 1].size + 1

C15_Witness ==
    /\ EffectiveLength = 4
    /\ chunks = <<[size |-> 2, offset |-> 0], [size |-> 0, offset |-> 3]>>

\* C16: fetches share no mutable state: once the chunks are planned, a step
\* never changes the chunk list or the requests, and a step that changes the
\* result of chunk i is the completion of chunk i's fetch, which was in
\* flight, and leaves the result of every other chunk as it was.
C16_FetchFrame ==
    [][Planned =>
         /\ chunks' = chunks
         /\ requests' = requests
         /\ Len(fetch') = Len(fetch)
         /\ \A i \in 1..Len(fetch) :
               fetch'[i] # fetch[i] =>
                  /\ fetch[i].state = "inflight"
                  /\ arrival' = Append(arrival, i)
                  /\ \A k \in 1..Len(fetch) : k # i => fetch'[k] = fetch[k]]_vars

C16_Witness ==
    /\ Len(fetch) = 3
    /\ arrival = <<2>>
    /\ fetch[2].state = "resolved"
    /\ fetch[1] = InFlight /\ fetch[3] = InFlight

\* C17: when the probe and every issued chunk fetch eventually complete,
\* download eventually reaches a final outcome; the outcome is either a
\* returned buffer or a failure, never both, and never changes afterwards.
C17_Terminates ==
    /\ <>Final
    /\ [](/\ pc = "returned" => (result # NoBuffer /\ failure = NoFailure)
          /\ pc = "failed" => (result = NoBuffer /\ failure # NoFailure)
          /\ ~Final => (result = NoBuffer /\ failure = NoFailure))
    /\ [][Final => (pc' = pc /\ result' = result /\ failure' = failure)]_vars

C17_Witness ==
    /\ pc = "returned"
    /\ arrival = <<1, 3, 2>>
    /\ Len(result) = EffectiveLength

====
